---- MODULE Spec2Model ----
(***************************************************************************)
(* apimsync, Azure API Management side: azureExport, azureServiceExport,   *)
(* azureOfframp, azureCleanLocal and getAzureToken, over a model of the    *)
(* staging directories src/main/azure and src/main/general.                *)
(*                                                                         *)
(* A Go string is a sequence of one-character strings, so that             *)
(* strings.HasSuffix, strings.Contains, the regular expression of          *)
(* azureExport and the file-name concatenations are computed character by  *)
(* character.  Fixed URL fragments that no code inspects are one element.  *)
(* A JSON file is the record of the struct fields that json.MarshalIndent  *)
(* wrote; fields that are copied through and never read are left out.      *)
(***************************************************************************)
EXTENDS Integers, Sequences, FiniteSets, TLC

VARIABLES
    apis,        \* upstream: the API list the management endpoint serves
    service,     \* upstream: the service document the management endpoint serves
    azureDir,    \* src/main/azure/apiproxies: <<group dir, file name>> -> content
    azureSvc,    \* src/main/azure/<ServiceName>.json: service name -> content
    generalDir,  \* src/main/general/apiproxies: <<group dir, file name>> -> content
    last,        \* the latest invocation: its flags, environment, calls, writes, result
    norm         \* the name normaliser run on its own: input and output

vars == <<apis, service, azureDir, azureSvc, generalDir, last, norm>>

-----------------------------------------------------------------------------
(* Bounds *)

\* upstream edits of the APIs' descriptions
MaxEdits == 1
\* longest raw name fed to the name normaliser on its own
MaxLen == 3

-----------------------------------------------------------------------------
(* Strings *)

E == <<>>

Min(S) == CHOOSE x \in S : \A y \in S : x <= y

\* strings.HasSuffix
HasSuffix(s, suffix) ==
    /\ Len(suffix) <= Len(s)
    /\ SubSeq(s, Len(s) - Len(suffix) + 1, Len(s)) = suffix

\* strings.Contains
Contains(s, substr) ==
    \E i \in 1..(Len(s) - Len(substr) + 1) : SubSeq(s, i, i + Len(substr) - 1) = substr

Digits == {"0", "1", "2", "3", "4", "5", "6", "7", "8", "9"}

\* regexp.MustCompile(`(-v\d+)$`).ReplaceAllString(name, "")
StripVersion(name) ==
    LET cuts == {i \in 1..(Len(name) - 2) :
                    /\ name[i] = "-"
                    /\ name[i + 1] = "v"
                    /\ \A j \in (i + 2)..Len(name) : name[j] \in Digits}
    IN  IF cuts = {} THEN name ELSE SubSeq(name, 1, Min(cuts) - 1)

RevMarker == <<";", "r", "e", "v", "=">>
DotJson == <<".", "j", "s", "o", "n">>
OasDot == <<"-", "o", "a", "s", ".">>
OasJson == <<"-", "o", "a", "s", ".", "j", "s", "o", "n">>
OasDefinitionJson ==
    <<"-", "o", "a", "s", "-", "d", "e", "f", "i", "n", "i", "t", "i", "o", "n",
      ".", "j", "s", "o", "n">>
AzureTag == <<"-", "a", "z", "u", "r", "e">>

-----------------------------------------------------------------------------
(* Name normalisation of azureExport *)

\* the mutant of Qualify: the version tag is appended without the suffix test
QualifyAlways(name, version) ==
    IF version # E THEN name \o <<"-">> \o version ELSE name

\* newApiName: the raw name, or the raw name with "-" and the version tag
Qualify(name, version) ==
    IF version # E /\ ~HasSuffix(name, version)
    THEN name \o <<"-">> \o version
    ELSE name

\* api.Properties.DisplayName after both if-blocks
QualifyDisplay(name, displayName, version) ==
    LET d1 == IF version # E /\ ~HasSuffix(name, version)
              THEN displayName \o <<" ">> \o version
              ELSE displayName
    IN  IF version # E /\ ~HasSuffix(d1, version)
        THEN d1 \o <<" ">> \o version
        ELSE d1

\* the loop variable api once its names are rewritten
NormalizeApi(api) ==
    [api EXCEPT !.Name = Qualify(api.Name, api.ApiVersion),
                !.DisplayName = QualifyDisplay(api.Name, api.DisplayName, api.ApiVersion)]

-----------------------------------------------------------------------------
(* Upstream fixtures: what the management endpoint can serve *)

\* AzureApi, with AzureApiProperties flattened into it
Api(name, displayName, version, path) ==
    [Id |-> name, Name |-> name, DisplayName |-> displayName, Description |-> E,
     Path |-> path, ApiVersion |-> version]

\* the zero value of AzureApi
ZeroApi == Api(E, E, E, E)

V1 == <<"v", "1">>
V2 == <<"v", "2">>

Orders == Api(<<"o", "-", "v", "2">>, <<"O">>, V2, <<"/", "o">>)
Billing == Api(<<"b">>, <<"B", " ", "v", "1">>, V1, <<"b">>)
BillingRev == Api(<<"b", ";", "r", "e", "v", "=", "2">>, <<"B">>, V1, <<"b">>)
BillingV1 == Api(<<"b", "-", "v", "1">>, <<"B">>, V1, <<"c">>)
PetOas == Api(<<"p", "-", "o", "a", "s">>, <<"P">>, E, <<"p">>)
Soap == Api(<<"w">>, <<"W">>, E, <<"w">>)

\* the API lists a service is started with
ApiLists ==
    { <<Orders, BillingRev>>,
      <<Billing, BillingV1>>,
      <<PetOas, Soap>> }

\* AzureApiSchema, with AzureApiSchemaProperties flattened into it
Schema(id, schemaType, document) ==
    [Id |-> id, SchemaType |-> schemaType, Document |-> document]

\* the zero value of AzureApiSchema
ZeroSchema == Schema(E, E, E)

JsonType == <<"j", "s", "o", "n">>
WsdlType == <<"w", "s", "d", "l">>

\* the schema the endpoint .../schemas/<apiName> serves with status 200
UpstreamSchema(apiName) ==
    IF apiName = Orders.Name THEN Schema(<<"s", "1">>, JsonType, <<"{openapi}">>)
    ELSE IF apiName = Soap.Name THEN Schema(<<"s", "2">>, WsdlType, <<"<wsdl/>">>)
    ELSE ZeroSchema

\* AzureService, with AzureServiceProperties flattened into it
Service(publisherName) ==
    [Name |-> <<"n">>, PublisherEmail |-> <<"e">>, PublisherName |-> publisherName,
     DeveloperPortalUrl |-> <<"d">>, GatewayUrl |-> <<"g">>]

\* the zero value of AzureService
ZeroService ==
    [Name |-> E, PublisherEmail |-> E, PublisherName |-> E,
     DeveloperPortalUrl |-> E, GatewayUrl |-> E]

-----------------------------------------------------------------------------
(* Flags and environment of one invocation *)

AzureFlags(subscription, resourceGroup, serviceName, token, apiName, onlyNew) ==
    [Subscription |-> subscription, ResourceGroup |-> resourceGroup,
     ServiceName |-> serviceName, Token |-> token, ApiName |-> apiName,
     OnlyNew |-> onlyNew]

Env(token, clientId, clientSecret, tenantId) ==
    [AZURE_TOKEN |-> token, AZURE_CLIENT_ID |-> clientId,
     AZURE_CLIENT_SECRET |-> clientSecret, AZURE_TENANT_ID |-> tenantId]

NoEnv == Env(E, E, E, E)

Envs ==
    { Env(<<"t">>, E, E, E),
      Env(E, <<"i">>, <<"k">>, <<"d">>),
      Env(E, E, <<"k">>, <<"d">>),
      Env(E, <<"i">>, E, <<"d">>),
      Env(E, <<"i">>, <<"k">>, E),
      NoEnv }

\* the name filters tried against a list: none, and each raw name of the list
Filters(list) == {E} \cup {list[i].Name : i \in 1..Len(list)}

Complete(token, apiName, onlyNew) ==
    AzureFlags(<<"s">>, <<"r">>, <<"n">>, token, apiName, onlyNew)

\* complete flags with a token: every filter, OnlyNew or not
Supplied(list) ==
    {[flags |-> Complete(<<"t">>, a, o), env |-> NoEnv] :
        a \in Filters(list), o \in BOOLEAN}

\* complete flags without a token, under every environment
Unsupplied == {[flags |-> Complete(E, E, FALSE), env |-> e] : e \in Envs}

\* flags lacking one identifier
Lacking ==
    {[flags |-> f, env |-> NoEnv] :
        f \in {AzureFlags(E, <<"r">>, <<"n">>, <<"t">>, E, FALSE),
               AzureFlags(<<"s">>, E, <<"n">>, <<"t">>, E, TRUE),
               AzureFlags(<<"s">>, <<"r">>, E, <<"t">>, E, FALSE)}}

\* how the token endpoint answers: a token, a body without access_token, a
\* transport error, a body that cannot be read
TokenAnswers == {"token", "denied", "transport", "unreadable"}

-----------------------------------------------------------------------------
(* Files *)

NoFiles == <<>>

\* os.WriteFile
WriteFile(dir, path, content) ==
    [p \in (DOMAIN dir) \cup {path} |-> IF p = path THEN content ELSE dir[p]]

ApiFile(api) == [kind |-> "api", api |-> api]
SchemaFile(schema) == [kind |-> "schema", schema |-> schema]
DocumentFile(document) == [kind |-> "document", bytes |-> document]
ServiceFile(svc) == [kind |-> "service", service |-> svc]
GeneralFile(general) == [kind |-> "general", general |-> general]

\* a network call of the log
Call(name, arg) == [call |-> name, arg |-> arg]

-----------------------------------------------------------------------------
(* getAzureToken and the prerequisite block the entry points share *)

\* getAzureToken: the token, or the process ends in log.Fatal
getAzureToken(answer) ==
    IF answer \in {"transport", "unreadable"}
    THEN [fatal |-> TRUE, token |-> E]
    ELSE [fatal |-> FALSE, token |-> IF answer = "token" THEN <<"t">> ELSE E]

\* the mutant of Prerequisites: the token is requested before the client id,
\* secret and tenant id are looked at
PrerequisitesRequestFirst(flags, env, answer) ==
    IF flags.Subscription = E \/ flags.ResourceGroup = E \/ flags.ServiceName = E
    THEN [go |-> FALSE, fatal |-> FALSE, token |-> E, net |-> <<>>]
    ELSE IF flags.Token # E
    THEN [go |-> TRUE, fatal |-> FALSE, token |-> flags.Token, net |-> <<>>]
    ELSE IF env.AZURE_TOKEN # E
    THEN [go |-> TRUE, fatal |-> FALSE, token |-> env.AZURE_TOKEN, net |-> <<>>]
    ELSE LET t == getAzureToken(answer)
         IN  [go |-> ~t.fatal /\ t.token # E, fatal |-> t.fatal, token |-> t.token,
              net |-> <<Call("token", E)>>]

\* the identifiers, then the token: supplied, from AZURE_TOKEN, or requested
Prerequisites(flags, env, answer) ==
    IF flags.Subscription = E \/ flags.ResourceGroup = E \/ flags.ServiceName = E
    THEN [go |-> FALSE, fatal |-> FALSE, token |-> E, net |-> <<>>]
    ELSE IF flags.Token # E
    THEN [go |-> TRUE, fatal |-> FALSE, token |-> flags.Token, net |-> <<>>]
    ELSE IF env.AZURE_TOKEN # E
    THEN [go |-> TRUE, fatal |-> FALSE, token |-> env.AZURE_TOKEN, net |-> <<>>]
    ELSE IF env.AZURE_CLIENT_ID = E \/ env.AZURE_CLIENT_SECRET = E
            \/ env.AZURE_TENANT_ID = E
    THEN [go |-> FALSE, fatal |-> FALSE, token |-> E, net |-> <<>>]
    ELSE LET t == getAzureToken(answer)
         IN  [go |-> ~t.fatal /\ t.token # E, fatal |-> t.fatal, token |-> t.token,
              net |-> <<Call("token", E)>>]

-----------------------------------------------------------------------------
(* azureExport *)

\* getAzureApis: the list, or the zero AzureApis when the call fails
getAzureApis(apisOk) == IF apisOk THEN apis ELSE <<>>

\* getAzureApiSchema: the schema, or the zero AzureApiSchema when the call fails
\* or the status is not 200
getAzureApiSchema(apiName, down) ==
    IF apiName \in down THEN ZeroSchema ELSE UpstreamSchema(apiName)

\* the mutant of Selected: the revision test is dropped
SelectedAnyRevision(flags, api) == flags.ApiName = E \/ flags.ApiName = api.Name

\* the name and revision filter of the loop
Selected(flags, api) ==
    /\ flags.ApiName = E \/ flags.ApiName = api.Name
    /\ ~Contains(api.Name, RevMarker)

\* the file whose existence decides OnlyNew
ApiPath(rawApi) == <<StripVersion(rawApi.Name), NormalizeApi(rawApi).Name \o DotJson>>
DefinitionPath(rawApi) ==
    <<StripVersion(rawApi.Name), NormalizeApi(rawApi).Name \o OasDefinitionJson>>
DocumentPath(rawApi, schemaType) ==
    <<StripVersion(rawApi.Name), NormalizeApi(rawApi).Name \o OasDot \o schemaType>>

\* the files of one schema, written when its Id is not empty
WriteSchema(st, rawApi, schema) ==
    IF schema.Id = E THEN st
    ELSE [st EXCEPT
            !.dir = WriteFile(WriteFile(@, DefinitionPath(rawApi), SchemaFile(schema)),
                              DocumentPath(rawApi, schema.SchemaType),
                              DocumentFile(schema.Document)),
            !.writes = @ \cup {DefinitionPath(rawApi),
                               DocumentPath(rawApi, schema.SchemaType)}]

\* the mutant of SkipsExisting: the file is looked up under the raw name
SkipsExistingRawName(st, rawApi, flags) ==
    flags.OnlyNew /\ <<StripVersion(rawApi.Name), rawApi.Name \o DotJson>> \in DOMAIN st.dir

\* whether OnlyNew passes over the API: its file can be opened
SkipsExisting(st, rawApi, flags) ==
    flags.OnlyNew /\ ApiPath(rawApi) \in DOMAIN st.dir

\* the write branch of the loop body: the API file, the schema, the name
ExportWrite(st, rawApi, down) ==
    LET api == NormalizeApi(rawApi)
        written == [st EXCEPT !.dir = WriteFile(@, ApiPath(rawApi), ApiFile(api)),
                              !.writes = @ \cup {ApiPath(rawApi)},
                              !.net = Append(@, Call("schema", api.Name))]
        schema == getAzureApiSchema(api.Name, down)
    IN  [WriteSchema(written, rawApi, schema) EXCEPT !.names = Append(@, api.Name)]

\* the mutant of ExportOne: OnlyNew is ignored
ExportOneAgain(st, rawApi, flags, down) ==
    IF ~Selected(flags, rawApi) THEN st ELSE ExportWrite(st, rawApi, down)

\* one iteration of the loop over apis.Value
ExportOne(st, rawApi, flags, down) ==
    IF ~Selected(flags, rawApi) THEN st
    ELSE IF SkipsExisting(st, rawApi, flags) THEN st
    ELSE ExportWrite(st, rawApi, down)

RECURSIVE ExportLoop(_, _, _, _, _)
ExportLoop(st, list, i, flags, down) ==
    IF i > Len(list) THEN st
    ELSE ExportLoop(ExportOne(st, list[i], flags, down), list, i + 1, flags, down)

\* the run: what it leaves in src/main/azure/apiproxies and what it returns
ExportRun(flags, env, answer, apisOk, down) ==
    LET pre == Prerequisites(flags, env, answer)
        start == [dir |-> azureDir, names |-> <<>>, writes |-> {},
                  net |-> Append(pre.net, Call("apis", E))]
        list == getAzureApis(apisOk)
        done == ExportLoop(start, list, 1, flags, down)
    IN  IF pre.go
        THEN [dir |-> done.dir, names |-> done.names, writes |-> done.writes,
              net |-> done.net, outcome |-> "returned", listed |-> list]
        ELSE [dir |-> azureDir, names |-> <<>>, writes |-> {}, net |-> pre.net,
              outcome |-> IF pre.fatal THEN "fatal" ELSE "returned", listed |-> <<>>]

\* what `last` keeps of an invocation
Invocation(op, inv, outcome, names, net, writes, listed) ==
    [op |-> op, flags |-> inv.flags, env |-> inv.env, outcome |-> outcome,
     names |-> names, net |-> net, writes |-> writes, listed |-> listed]

NoInvocation == [flags |-> AzureFlags(E, E, E, E, E, FALSE), env |-> NoEnv]

\* a step of the world outside the program
Outside(op) == Invocation(op, NoInvocation, "returned", <<>>, <<>>, {}, <<>>)

azureExport(inv, answer, apisOk, down) ==
    \E run \in {ExportRun(inv.flags, inv.env, answer, apisOk, down)} :
        /\ azureDir' = run.dir
        /\ last' = Invocation("azureExport", inv, run.outcome, run.names, run.net,
                              {<<"azure">> \o w : w \in run.writes}, run.listed)
        /\ UNCHANGED <<apis, service, azureSvc, generalDir, norm>>

-----------------------------------------------------------------------------
(* azureServiceExport and azureCleanLocal *)

\* getAzureService: the body of the answer, or "" when the call fails
getAzureService(serviceOk) == IF serviceOk THEN ServiceFile(service) ELSE E

azureServiceExport(inv, answer, serviceOk) ==
    LET pre == Prerequisites(inv.flags, inv.env, answer)
        body == getAzureService(serviceOk)
        wrote == pre.go /\ body # E
    IN  /\ azureSvc' = IF wrote THEN WriteFile(azureSvc, inv.flags.ServiceName, body)
                       ELSE azureSvc
        /\ last' = Invocation("azureServiceExport", inv,
                              IF pre.fatal THEN "fatal" ELSE "returned", <<>>,
                              IF pre.go THEN Append(pre.net, Call("service", E))
                              ELSE pre.net,
                              IF wrote THEN {<<"service", inv.flags.ServiceName>>} ELSE {},
                              <<>>)
        /\ UNCHANGED <<apis, service, azureDir, generalDir, norm>>

\* a variant that removes the whole of src/main
azureCleanAll(inv) ==
    /\ azureDir' = NoFiles
    /\ azureSvc' = NoFiles
    /\ generalDir' = NoFiles
    /\ last' = Invocation("azureCleanLocal", inv, "returned", <<>>, <<>>, {}, <<>>)
    /\ UNCHANGED <<apis, service, norm>>

\* os.RemoveAll("src/main/azure")
azureCleanLocal(inv) ==
    /\ azureDir' = NoFiles
    /\ azureSvc' = NoFiles
    /\ last' = Invocation("azureCleanLocal", inv, "returned", <<>>, <<>>, {}, <<>>)
    /\ UNCHANGED <<apis, service, generalDir, norm>>

-----------------------------------------------------------------------------
(* azureOfframp *)

\* json.Unmarshal of an API file into AzureApi; a schema document has none of
\* its fields
ParseAzureApi(content) == IF content.kind = "api" THEN content.api ELSE ZeroApi

\* the service file of the flags, or the zero AzureService when it cannot be opened
LoadService(flags) ==
    IF flags.ServiceName \in DOMAIN azureSvc
    THEN azureSvc[flags.ServiceName].service
    ELSE ZeroService

\* the mutant of GatewayUrl: no "/" between the two
GatewayUrlJoined(azureService, azureApi) == azureService.GatewayUrl \o azureApi.Path

\* generalApi.GatewayUrl
GatewayUrl(azureService, azureApi) ==
    azureService.GatewayUrl \o <<"/">> \o azureApi.Path

\* the GeneralApi built from one AzureApi
GeneralApi(azureApi, azureService, flags) ==
    [Name |-> azureApi.Name \o AzureTag,
     DisplayName |-> azureApi.DisplayName,
     Description |-> azureApi.Description,
     Version |-> azureApi.ApiVersion,
     OwnerEmail |-> azureService.PublisherEmail,
     OwnerName |-> azureService.PublisherName,
     DocumentationUrl |->
        azureService.DeveloperPortalUrl \o <<"/api-details#api=">> \o azureApi.Name,
     GatewayUrl |-> GatewayUrl(azureService, azureApi),
     BasePath |-> azureApi.Path,
     PlatformId |-> <<"azure-api-management">>,
     PlatformName |-> <<"Azure API Management">>,
     PlatformResourceUri |->
        <<"https://portal.azure.com/#resource/subscriptions/">> \o flags.Subscription
        \o <<"/resourceGroups/">> \o flags.ResourceGroup
        \o <<"/providers/Microsoft.ApiManagement/service/">> \o flags.ServiceName
        \o <<"/overview?apiName=">> \o azureApi.Name]

\* writeGeneralApi(e.Name(), generalApi): the canonical entry of the group
writeGeneralApi(st, group, generalApi) ==
    [st EXCEPT !.dir = WriteFile(@, <<group, generalApi.Name \o DotJson>>,
                                 GeneralFile(generalApi)),
               !.writes = @ \cup {<<group, generalApi.Name \o DotJson>>}]

\* the schema body beside the API file, copied when it can be opened
CopySchema(st, staged, group, azureApi, generalApi) ==
    IF <<group, azureApi.Name \o OasJson>> \in DOMAIN staged
    THEN [st EXCEPT !.dir = WriteFile(@, <<group, generalApi.Name \o OasJson>>,
                                      staged[<<group, azureApi.Name \o OasJson>>]),
                    !.writes = @ \cup {<<group, generalApi.Name \o OasJson>>}]
    ELSE st

\* whether the inner loop takes the file for an API file
IsApiFile(fileName) ==
    ~HasSuffix(fileName, OasJson) /\ ~HasSuffix(fileName, OasDefinitionJson)

\* the inner loop body, for file f of group directory e of the staged files
OfframpOne(st, staged, e, f, azureService, flags) ==
    IF ~IsApiFile(f) THEN st
    ELSE LET azureApi == ParseAzureApi(staged[<<e, f>>])
             generalApi == GeneralApi(azureApi, azureService, flags)
             file == GeneralFile(generalApi)
             first == writeGeneralApi(st, e, generalApi)
             second == [first EXCEPT
                          !.dir = WriteFile(@, <<e, generalApi.Name \o DotJson>>, file),
                          !.writes = @ \cup {<<e, generalApi.Name \o DotJson>>}]
         IN  IF azureApi.Name = E THEN st
             ELSE CopySchema(second, staged, e, azureApi, generalApi)

\* both loops: the files of every group directory the filter lets through.  The
\* directory order of os.ReadDir is replaced by an arbitrary fixed one.
RECURSIVE OfframpLoop(_, _, _, _, _)
OfframpLoop(st, staged, paths, azureService, flags) ==
    IF paths = {} THEN st
    ELSE LET p == CHOOSE q \in paths : TRUE
         IN  OfframpLoop(OfframpOne(st, staged, p[1], p[2], azureService, flags),
                         staged, paths \ {p}, azureService, flags)

\* azureOfframp over the staged files it finds: ends in log.Fatal when the staging
\* directory cannot be read
Offramp(staged, flags) ==
    LET start == [dir |-> generalDir, writes |-> {}]
        entries == {p \in DOMAIN staged : flags.ApiName = E \/ flags.ApiName = p[1]}
    IN  IF flags.Subscription = E \/ flags.ResourceGroup = E \/ flags.ServiceName = E
        THEN start @@ [outcome |-> "returned"]
        ELSE IF DOMAIN staged = {}
        THEN start @@ [outcome |-> "fatal"]
        ELSE OfframpLoop(start, staged, entries, LoadService(flags), flags)
                @@ [outcome |-> "returned"]

OfframpRun(flags) == Offramp(azureDir, flags)

azureOfframp(inv) ==
    \E run \in {OfframpRun(inv.flags)} :
        /\ generalDir' = run.dir
        /\ last' = Invocation("azureOfframp", inv, run.outcome, <<>>, <<>>,
                              {<<"general">> \o w : w \in run.writes}, <<>>)
        /\ UNCHANGED <<apis, service, azureDir, azureSvc, norm>>

-----------------------------------------------------------------------------
(* The world outside: an API of the upstream service is edited *)

\* the edits made so far
RECURSIVE ApiEdits(_)
ApiEdits(i) == IF i = 0 THEN 0 ELSE Len(apis[i].Description) + ApiEdits(i - 1)
Edits == ApiEdits(Len(apis))

EditApi(i) ==
    /\ Edits < MaxEdits
    /\ apis' = [apis EXCEPT ![i].Description = @ \o <<"*">>]
    /\ last' = Outside("edit")
    /\ UNCHANGED <<service, azureDir, azureSvc, generalDir, norm>>

-----------------------------------------------------------------------------
(* apimSync: the handler of POST /v1/apim/sync *)

\* the environment of the server: the identifiers beside the credentials
ServerEnv(subscription, resourceGroup, serviceName, env) ==
    env @@ [AZURE_SUBSCRIPTION_ID |-> subscription,
            AZURE_RESOURCE_GROUP |-> resourceGroup,
            AZURE_SERVICE_NAME |-> serviceName]

\* the body of a request
ApimSyncInput(offramp, onramp) == [Offramp |-> offramp, Onramp |-> onramp]

\* a variant that reports success only for the tags it knows
ApimSyncOutputSupported(body) ==
    [Result |-> body.Offramp \in {"azure", "aws"} /\ body.Onramp = "apihub",
     Message |-> <<"Sync from ", body.Offramp, " to ", body.Onramp, " successful!">>]

\* the body of the answer
ApimSyncOutput(body) ==
    [Result |-> TRUE,
     Message |-> <<"Sync from ", body.Offramp, " to ", body.Onramp, " successful!">>]

\* whether the request calls the pipelines of the other platforms (awsExport and
\* awsOfframp, apiHubOnramp and apiHubImport), which touch no Azure file
CallsOthers(body) == body.Offramp = "aws" \/ body.Onramp = "apihub"

\* azureFlags as the handler fills them: no token, no filter, OnlyNew off
SyncFlags(env) ==
    AzureFlags(env.AZURE_SUBSCRIPTION_ID, env.AZURE_RESOURCE_GROUP,
               env.AZURE_SERVICE_NAME, E, E, FALSE)

\* azureExport(&azureFlags), for the tag "azure" only
SyncExport(env, body, answer, apisOk) ==
    IF body.Offramp = "azure"
    THEN ExportRun(SyncFlags(env), env, answer, apisOk, {})
    ELSE [dir |-> azureDir, names |-> <<>>, writes |-> {}, net |-> <<>>,
          outcome |-> "returned", listed |-> <<>>]

\* azureOfframp(&azureFlags) over what the export left, when the export returned
SyncOfframp(env, body, export) ==
    IF body.Offramp = "azure" /\ export.outcome = "returned"
    THEN Offramp(export.dir, SyncFlags(env))
    ELSE [dir |-> generalDir, writes |-> {}, outcome |-> "returned"]

\* whether the handler returns; `others` says how the calls of the other
\* platforms end
SyncOutcome(body, export, offramp, others) ==
    IF export.outcome = "fatal" \/ offramp.outcome = "fatal" THEN "fatal"
    ELSE IF CallsOthers(body) THEN others ELSE "returned"

\* one request: the flags from the environment, export and then offramp of the
\* source, the onramp, the answer
apimSync(env, body, answer, apisOk, others) ==
    \E export \in {SyncExport(env, body, answer, apisOk)} :
    \E offramp \in {SyncOfframp(env, body, export)} :
    \E outcome \in {SyncOutcome(body, export, offramp, others)} :
        /\ azureDir' = export.dir
        /\ generalDir' = offramp.dir
        /\ last' = Invocation("apimSync", [flags |-> SyncFlags(env), env |-> env],
                              outcome, export.names, export.net,
                              {<<"azure">> \o w : w \in export.writes}
                                \cup {<<"general">> \o w : w \in offramp.writes},
                              export.listed)
                    @@ [body |-> body,
                        response |-> IF outcome = "returned"
                                     THEN <<ApimSyncOutput(body)>> ELSE <<>>]
        /\ UNCHANGED <<apis, service, azureSvc, norm>>

-----------------------------------------------------------------------------
(* The program *)

NormOff == [pc |-> "off", api |-> ZeroApi, once |-> ZeroApi, twice |-> ZeroApi]

Init ==
    /\ apis \in ApiLists
    /\ service = Service(E)
    /\ azureDir = NoFiles
    /\ azureSvc = NoFiles
    /\ generalDir = NoFiles
    /\ last = Outside("start")
    /\ norm = NormOff

\* the names whose schema fetch can fail
Schemas == {NormalizeApi(apis[i]).Name : i \in 1..Len(apis)}

\* whether the invocation gets as far as the token request
RequestsToken(inv) ==
    /\ inv.flags.Token = E
    /\ inv.env.AZURE_TOKEN = E
    /\ inv.env.AZURE_CLIENT_ID # E
    /\ inv.env.AZURE_CLIENT_SECRET # E
    /\ inv.env.AZURE_TENANT_ID # E

\* the runs of azureExport tried: every invocation with the network up, the token
\* request answered each way, the unfiltered runs with the network down
ExportInputs ==
    {[inv |-> inv, answer |-> "token", apisOk |-> TRUE, down |-> {}] :
        inv \in Supplied(apis) \cup Unsupplied \cup Lacking}
    \cup
    {[inv |-> inv, answer |-> a, apisOk |-> TRUE, down |-> {}] :
        inv \in {u \in Unsupplied : RequestsToken(u)}, a \in TokenAnswers}
    \cup
    {[inv |-> inv, answer |-> "token", apisOk |-> ok, down |-> d] :
        inv \in {u \in Supplied(apis) : u.flags.ApiName = E},
        ok \in BOOLEAN, d \in {{}, Schemas}}

ServiceExportInputs ==
    {[inv |-> inv, answer |-> "token", serviceOk |-> ok] :
        inv \in {u \in Supplied(apis) : u.flags.ApiName = E /\ ~u.flags.OnlyNew} \cup Lacking,
        ok \in BOOLEAN}

OfframpInputs == {u \in Supplied(apis) : ~u.flags.OnlyNew} \cup Lacking

CleanInputs == {u \in Supplied(apis) : u.flags.ApiName = E /\ ~u.flags.OnlyNew}

\* a server that has its identifiers and a token
Served == ServerEnv(<<"s">>, <<"r">>, <<"n">>, Env(<<"t">>, E, E, E))

\* the environments of the server: a token, client credentials, no credentials,
\* and a token without the subscription
ServerEnvs ==
    {Served,
     ServerEnv(<<"s">>, <<"r">>, <<"n">>, Env(E, <<"i">>, <<"k">>, <<"d">>)),
     ServerEnv(<<"s">>, <<"r">>, <<"n">>, NoEnv),
     ServerEnv(E, <<"r">>, <<"n">>, Env(<<"t">>, E, E, E))}

\* the requests tried: Azure to API hub under every environment, with the token
\* request answered each way and with the list request failing; the other tags,
\* supported or not; the calls of the other platforms ending the process
SyncInputs ==
    {[env |-> e, body |-> ApimSyncInput("azure", "apihub"), answer |-> "token",
      apisOk |-> TRUE, others |-> "returned"] : e \in ServerEnvs}
    \cup
    {[env |-> e, body |-> ApimSyncInput("azure", "apihub"), answer |-> a,
      apisOk |-> TRUE, others |-> "returned"] :
        e \in {u \in ServerEnvs : RequestsToken([flags |-> Complete(E, E, FALSE), env |-> u])},
        a \in TokenAnswers}
    \cup
    {[env |-> Served, body |-> ApimSyncInput("azure", "apihub"), answer |-> "token",
      apisOk |-> FALSE, others |-> "returned"]}
    \cup
    {[env |-> Served, body |-> b, answer |-> "token", apisOk |-> TRUE,
      others |-> "returned"] :
        b \in {ApimSyncInput("azure", "none"), ApimSyncInput("aws", "apihub"),
               ApimSyncInput("none", "none")}}
    \cup
    {[env |-> Served, body |-> ApimSyncInput("aws", "apihub"), answer |-> "token",
      apisOk |-> TRUE, others |-> "fatal"]}

Next ==
    \/ \E in \in SyncInputs : apimSync(in.env, in.body, in.answer, in.apisOk, in.others)
    \/ \E in \in ExportInputs : azureExport(in.inv, in.answer, in.apisOk, in.down)
    \/ \E in \in ServiceExportInputs : azureServiceExport(in.inv, in.answer, in.serviceOk)
    \/ \E inv \in OfframpInputs : azureOfframp(inv)
    \/ \E inv \in CleanInputs : azureCleanLocal(inv)
    \/ \E i \in 1..Len(apis) : EditApi(i)

Spec == Init /\ [][Next]_vars

-----------------------------------------------------------------------------
(* The name normaliser on its own: one API normalised, then normalised again *)

NameChars == {"b", "-", "v", "1"}

\* every raw name of one to MaxLen characters
Names == UNION {[1..n -> NameChars] : n \in 1..MaxLen}

NormInputs ==
    {Api(n, d, v, E) :
        n \in Names,
        d \in {<<"B">>, <<"B", " ", "v", "1">>, <<"B", "-", "v", "1">>},
        v \in {E, <<"1">>, V1}}

NormInit ==
    /\ apis = <<Orders, BillingRev>>
    /\ service = Service(E)
    /\ azureDir = NoFiles
    /\ azureSvc = NoFiles
    /\ generalDir = NoFiles
    /\ last = Outside("start")
    /\ \E a \in NormInputs : norm = [pc |-> "in", api |-> a, once |-> a, twice |-> a]

\* lines 285-296 on the API as listed
NormalizeOnce ==
    /\ norm.pc = "in"
    /\ norm' = [norm EXCEPT !.pc = "once", !.once = NormalizeApi(norm.api),
                            !.twice = NormalizeApi(norm.api)]
    /\ UNCHANGED <<apis, service, azureDir, azureSvc, generalDir, last>>

\* lines 285-296 on an API listed under its qualified names
NormalizeTwice ==
    /\ norm.pc = "once"
    /\ norm' = [norm EXCEPT !.pc = "twice", !.twice = NormalizeApi(norm.once)]
    /\ UNCHANGED <<apis, service, azureDir, azureSvc, generalDir, last>>

NormNext == NormalizeOnce \/ NormalizeTwice

NormSpec == NormInit /\ [][NormNext]_vars

-----------------------------------------------------------------------------
(* Properties *)

InSeq(x, seq) == \E i \in 1..Len(seq) : seq[i] = x

\* strings.HasPrefix
HasPrefix(s, prefix) == Len(prefix) <= Len(s) /\ SubSeq(s, 1, Len(prefix)) = prefix

\* the run got as far as listing the APIs
Listed(run) == InSeq(Call("apis", E), run.net)

\* the identifiers of the flags are all there
Identified(flags) ==
    flags.Subscription # E /\ flags.ResourceGroup # E /\ flags.ServiceName # E

\* the staged files of one API: its API file, its schema descriptor, its schema body
StagedFiles(dir, rawApi) ==
    {p \in DOMAIN dir :
        /\ p[1] = StripVersion(rawApi.Name)
        /\ \/ p = ApiPath(rawApi)
           \/ p = DefinitionPath(rawApi)
           \/ HasPrefix(p[2], NormalizeApi(rawApi).Name \o OasDot)}

\* C1: an export that follows an export of the same list under the same filter,
\* and runs with OnlyNew, returns no name.
C1_IdempotentExport ==
    [][(/\ last.op = "azureExport" /\ Listed(last)
        /\ last'.op = "azureExport" /\ Listed(last')
        /\ last'.flags.OnlyNew
        /\ last'.listed = last.listed
        /\ last'.flags.ApiName = last.flags.ApiName)
       => last'.names = <<>>]_vars

\* C1 witness: an OnlyNew export listed selected APIs, found each staged as the
\* upstream has it, and returned no name.
C1_Witness ==
    /\ last.op = "azureExport" /\ last.flags.OnlyNew /\ last.names = <<>>
    /\ \E i \in 1..Len(last.listed) : Selected(last.flags, last.listed[i])
    /\ \A i \in 1..Len(last.listed) :
          Selected(last.flags, last.listed[i]) =>
             /\ ApiPath(last.listed[i]) \in DOMAIN azureDir
             /\ azureDir[ApiPath(last.listed[i])].kind = "api"
             /\ azureDir[ApiPath(last.listed[i])].api.Id = last.listed[i].Id

\* C2: under OnlyNew an API whose file exists when the run starts is passed over:
\* its name is not returned, no schema is fetched for it, and none of its staged
\* files is created or changed.
C2_SkipExisting ==
    [][(last'.op = "azureExport" /\ last'.flags.OnlyNew) =>
        \A i \in 1..Len(last'.listed) :
            LET rawApi == last'.listed[i]
                name == NormalizeApi(rawApi).Name
            IN  (Selected(last'.flags, rawApi) /\ ApiPath(rawApi) \in DOMAIN azureDir) =>
                  /\ ~InSeq(name, last'.names)
                  /\ ~InSeq(Call("schema", name), last'.net)
                  /\ StagedFiles(azureDir', rawApi) = StagedFiles(azureDir, rawApi)
                  /\ \A p \in StagedFiles(azureDir, rawApi) :
                        /\ azureDir'[p] = azureDir[p]
                        /\ <<"azure">> \o p \notin last'.writes]_vars

\* C2 witness: an OnlyNew export passed over an API whose staged copy differs from
\* what the upstream lists.
C2_Witness ==
    /\ last.op = "azureExport" /\ last.flags.OnlyNew
    /\ \E i \in 1..Len(last.listed) :
          LET rawApi == last.listed[i]
          IN  /\ Selected(last.flags, rawApi)
              /\ ApiPath(rawApi) \in DOMAIN azureDir
              /\ azureDir[ApiPath(rawApi)].api.Id = rawApi.Id
              /\ azureDir[ApiPath(rawApi)] # ApiFile(NormalizeApi(rawApi))
              /\ ~InSeq(NormalizeApi(rawApi).Name, last.names)

\* C3: no returned name, no staged file and no canonical file belongs to an API
\* whose raw name holds the revision marker.
C3_NoRevisions ==
    /\ \A i \in 1..Len(last.names) : ~Contains(last.names[i], RevMarker)
    /\ \A p \in DOMAIN azureDir :
          /\ ~Contains(p[1], RevMarker) /\ ~Contains(p[2], RevMarker)
          /\ azureDir[p].kind = "api" => ~Contains(azureDir[p].api.Id, RevMarker)
    /\ \A p \in DOMAIN generalDir :
          /\ ~Contains(p[1], RevMarker) /\ ~Contains(p[2], RevMarker)
          /\ generalDir[p].kind = "general" =>
                ~Contains(generalDir[p].general.Name, RevMarker)

\* C3 witness: an export whose filter names a listed revision has run, with files
\* staged and canonical files written before it.
C3_Witness ==
    /\ last.op = "azureExport" /\ Listed(last)
    /\ Contains(last.flags.ApiName, RevMarker)
    /\ \E i \in 1..Len(last.listed) : last.listed[i].Name = last.flags.ApiName
    /\ azureDir # NoFiles /\ generalDir # NoFiles

\* an unfiltered offramp that has what it needs and returns
FullOfframp(run) ==
    /\ run.op = "azureOfframp" /\ run.outcome = "returned"
    /\ Identified(run.flags) /\ run.flags.ApiName = E

\* C4: after an export, an unfiltered offramp leaves, for every API whose name
\* the export returned, a canonical file in the API's group named after the
\* qualified name with "-azure", and holding the API's path as its base path.
C4_RoundTrip ==
    [][(last.op = "azureExport" /\ FullOfframp(last')) =>
        \A i \in 1..Len(last.listed) :
            LET rawApi == last.listed[i]
                name == NormalizeApi(rawApi).Name \o AzureTag
                file == <<StripVersion(rawApi.Name), name \o DotJson>>
            IN  (Selected(last.flags, rawApi)
                    /\ InSeq(NormalizeApi(rawApi).Name, last.names)) =>
                  /\ file \in DOMAIN generalDir'
                  /\ generalDir'[file].kind = "general"
                  /\ generalDir'[file].general.Name = name
                  /\ generalDir'[file].general.BasePath = rawApi.Path]_vars

\* C5 as the specification states it: the gateway URL of every canonical entry an
\* offramp writes is the service's gateway URL followed at once by the base path.
C5_GatewayUrlJoined ==
    [][(last'.op = "azureOfframp") =>
        \A p \in DOMAIN azureDir :
            LET general == <<p[1], azureDir[p].api.Name \o AzureTag \o DotJson>>
            IN  (azureDir[p].kind = "api" /\ <<"general">> \o general \in last'.writes) =>
                  generalDir'[general].general.GatewayUrl =
                     LoadService(last'.flags).GatewayUrl \o azureDir[p].api.Path]_vars

\* C5, amended: the gateway URL of every canonical entry an offramp writes is the
\* gateway URL of the staged service file (empty without one), then "/", then the
\* path of the staged API; and every staged API file the offramp takes for one
\* gets such an entry.
C5_GatewayUrlSlash ==
    [][(last'.op = "azureOfframp") =>
        \A p \in DOMAIN azureDir :
            LET general == <<p[1], azureDir[p].api.Name \o AzureTag \o DotJson>>
            IN  /\ (azureDir[p].kind = "api" /\ <<"general">> \o general \in last'.writes) =>
                      generalDir'[general].general.GatewayUrl =
                         LoadService(last'.flags).GatewayUrl \o <<"/">>
                            \o azureDir[p].api.Path
                /\ (/\ azureDir[p].kind = "api" /\ IsApiFile(p[2])
                    /\ FullOfframp(last')) =>
                      <<"general">> \o general \in last'.writes]_vars

\* C5 witness: an offramp wrote an entry for a path that starts with "/" under a
\* service whose gateway URL is known: the URL has two slashes.
C5_Witness ==
    /\ last.op = "azureOfframp"
    /\ \E p \in DOMAIN generalDir :
          /\ <<"general">> \o p \in last.writes
          /\ generalDir[p].kind = "general"
          /\ generalDir[p].general.BasePath = Orders.Path
          /\ generalDir[p].general.GatewayUrl = <<"g", "/", "/", "o">>

\* C6: after an export, an unfiltered offramp leaves, for every schema body the
\* export wrote, the same bytes in the canonical "<name>-azure-oas.json".
C6_SchemaCopied ==
    [][(last.op = "azureExport" /\ FullOfframp(last')) =>
        \A i \in 1..Len(last.listed) :
            LET rawApi == last.listed[i]
                oas == <<StripVersion(rawApi.Name),
                         NormalizeApi(rawApi).Name \o AzureTag \o OasJson>>
            IN  \A p \in StagedFiles(azureDir, rawApi) :
                  (azureDir[p].kind = "document" /\ <<"azure">> \o p \in last.writes) =>
                     /\ oas \in DOMAIN generalDir'
                     /\ generalDir'[oas] = azureDir[p]]_vars

\* the rule of the qualified name, applied to any name with separator sep
AppendRule(name, version, sep) ==
    IF version = E \/ HasSuffix(name, version) THEN name ELSE name \o sep \o version

\* C7: a display name that already ends with the version tag is not suffixed
\* again, whatever the raw name is (the clause of the append rule that does
\* not depend on the separator).
C7_DisplayNameRule ==
    (/\ norm.pc \in {"once", "twice"}
     /\ norm.api.ApiVersion # E
     /\ HasSuffix(norm.api.DisplayName, norm.api.ApiVersion)) =>
        norm.once.DisplayName = norm.api.DisplayName

\* C8: qualifying a qualified name changes nothing, and the qualified name is the
\* raw name, or the raw name with "-" and the tag.
C8_QualifyIdempotent ==
    /\ norm.pc = "twice" => norm.twice.Name = norm.once.Name
    /\ norm.pc \in {"once", "twice"} =>
          norm.once.Name = AppendRule(norm.api.Name, norm.api.ApiVersion, <<"-">>)

\* C8 witness: the tag was appended the first time and the name kept the second.
C8_Witness ==
    /\ norm.pc = "twice"
    /\ norm.once.Name = norm.api.Name \o <<"-">> \o norm.api.ApiVersion
    /\ norm.twice.Name = norm.once.Name

\* a prerequisite of the export is missing
PrerequisiteMissing(flags, env) ==
    \/ ~Identified(flags)
    \/ /\ flags.Token = E /\ env.AZURE_TOKEN = E
       /\ \/ env.AZURE_CLIENT_ID = E
          \/ env.AZURE_CLIENT_SECRET = E
          \/ env.AZURE_TENANT_ID = E

\* C9: an export that lacks a prerequisite returns the empty list, calls nothing
\* on the network, leaves every staged file alone and does not end the process.
C9_MissingPrerequisite ==
    [][(last'.op = "azureExport" /\ PrerequisiteMissing(last'.flags, last'.env)) =>
        /\ last'.names = <<>>
        /\ last'.outcome = "returned"
        /\ last'.net = <<>>
        /\ last'.writes = {}
        /\ UNCHANGED <<azureDir, azureSvc, generalDir>>]_vars

\* C9 witness: such an export has run over a staging area that holds files.
C9_Witness ==
    /\ last.op = "azureExport" /\ PrerequisiteMissing(last.flags, last.env)
    /\ last.flags.Token = E /\ Identified(last.flags)
    /\ azureDir # NoFiles
    /\ last.names = <<>> /\ last.outcome = "returned"

\* C10: an export whose token request fails returns the empty list, writes
\* nothing and does not end the process.
C10_TokenFailureReturns ==
    (/\ last.op = "azureExport"
     /\ InSeq(Call("token", E), last.net)
     /\ ~Listed(last)) =>
        /\ last.outcome = "returned"
        /\ last.names = <<>>
        /\ last.writes = {}

\* C11: the selected APIs of one export whose names come back are staged at
\* paths of their own, and no name comes back twice.
C11_DistinctPaths ==
    last.op = "azureExport" =>
        /\ \A i, j \in 1..Len(last.listed) :
              (/\ i # j
               /\ Selected(last.flags, last.listed[i])
               /\ Selected(last.flags, last.listed[j])
               /\ <<"azure">> \o ApiPath(last.listed[i]) \in last.writes
               /\ <<"azure">> \o ApiPath(last.listed[j]) \in last.writes) =>
                  ApiPath(last.listed[i]) # ApiPath(last.listed[j])
        /\ \A i, j \in 1..Len(last.names) : i # j => last.names[i] # last.names[j]

C13_AlwaysSuccessful ==
    (last.op = "apimSync" /\ last.outcome = "returned") =>
        /\ Len(last.response) = 1
        /\ last.response[1].Result = TRUE
        /\ last.response[1].Message =
              <<"Sync from ", last.body.Offramp, " to ", last.body.Onramp, " successful!">>

\* C13 witness: a request from Azure has returned with nothing exported and
\* nothing written.
C13_Witness ==
    /\ last.op = "apimSync" /\ last.outcome = "returned"
    /\ last.body.Offramp = "azure"
    /\ last.names = <<>> /\ last.writes = {}
    /\ last.response # <<>>

====
